---- MODULE Spec2Model ----
(***************************************************************************)
(* BitburnerPlugin (src/src/index.ts): the esbuild plugin that pushes the  *)
(* build output to a connected Bitburner client.                           *)
(*                                                                         *)
(* Spec          the build cycle: onStart, the bundler, onEnd and the push *)
(*               sequence it starts, the client connecting and leaving.    *)
(* SpecMirror    the client-connected handler that sets up the mirrors.    *)
(* SpecResolver  the path arithmetic of onEnd's output file resolution.    *)
(***************************************************************************)
EXTENDS Integers, Sequences, FiniteSets, TLC

\* ------------------------------------------------------------------ bounds
MaxBuilds == 2      \* build cycles the bundler runs
NumFiles == 2       \* files one build can write under outdir
NumExt == 2         \* registered extensions
MaxErrors == 1      \* compile errors one build can report
NumDirs == 2        \* local directories configured in opts.mirror
MaxRuns == 2        \* client-connected events the mirror handler sees
MaxOutdirSegs == 2  \* path segments of outdir
MaxRestSegs == 2    \* path segments of an output file below its server directory
MaxEvents == 2      \* client-connected events emitted while setup is followed
NumPaths == 2       \* local paths configured in opts.distribute

Builds == 1..MaxBuilds
Files == 1..NumFiles
Ext == 1..NumExt
Dirs == 1..NumDirs
Runs == 1..MaxRuns
Events == 1..MaxEvents
Paths == 1..NumPaths

VARIABLES
    connected,   \* remoteAPI.connection && remoteAPI.connection.connected
    queued,      \* let queued                                     (line 119)
    nBuilds,     \* build cycles started so far; the current build's id
    phase,       \* where the bundler is in the current cycle
    errors,      \* result.errors.length of the current build
    outExists,   \* existsSync(outdir)
    outFiles,    \* outdir content: file -> id of the build that wrote it, 0 absent
    remote,      \* the client's files: file -> id of the build pushed last, 0 none
    pc,          \* per build: where the onEnd call of that build is
    files,       \* per build: the list onEnd resolved                (line 163)
    pst,         \* per build and file: the promise of the push       (line 175)
    rst,         \* per build and file: the promise of calculateRAM   (line 187)
    hooked,      \* per build: extensions whose afterBuild was called (line 202)
    nRes,        \* per build: readdir calls issued by its onEnd      (line 163)
    waiters,     \* builds whose onEnd registered a client-connected listener
    lateCalls,   \* builds whose listener ran again after its promise resolved
    faults,      \* an I/O or remote failure has happened (the environment's)
    latest,      \* id of the latest build that ended error-free, 0 none
    latestOut,   \* the files that build wrote
    observe,     \* the client's files and the failures are followed (SpecRemote)
    bb,          \* per build: extensions whose beforeBuild is pending (line 126)
    now,         \* the value Date.now() returned last
    startTime,   \* let startTime                                  (line 120)
    startOf,     \* per build: the Date.now() of its onStart      (line 123)
    endTime,     \* per build: let endTime of its onEnd           (line 151)
    dur,         \* per build: the endTime - startTime it logged  (line 199)
    \* the mirror handler                                        (lines 84-117)
    mirrorOn,    \* opts.mirror is set
    dirExists,   \* per configured directory: existsSync(path)
    nRuns,       \* calls of the handler so far; the current call's id
    mpc,         \* per call: where the handler is
    midx,        \* per call: the directory or mirror its loop is at
    sMade,       \* per call and directory: remoteAPI.mirror(...) has made the session
    sInit,       \* per session: its initFileCache()
    sSync,       \* per session: its syncWithRemote()
    sWatch,      \* per session: watch() has been called
    sDisposed,   \* per session: calls of dispose()
    closed,      \* the server's close event has fired
    \* the output file resolution                                (lines 163-170)
    rOutdir,     \* the segments of outdir
    rSep,        \* the host's path separator
    rServer,     \* the file's first segment below outdir
    rRest,       \* its remaining segments, the file name last
    rDone,       \* the file has been resolved
    rOut,        \* the descriptor made of it
    \* setup and the client-connected handlers                    (lines 34-82)
    cfgPort,     \* opts.port is set
    cfgWrite,    \* pluginBuild.initialOptions.write
    cfgOutdir,   \* pluginBuild.initialOptions.outdir is set
    cfgTypes,    \* opts.types is set
    cfgDistribute, \* opts.distribute is set
    spc,         \* where setup is
    hp,          \* extensions whose hook setup is awaiting          (lines 45, 60)
    listening,   \* remoteAPI.listen has been called                 (line 56)
    handlers,    \* the events setup has registered its handlers for
    nEv,         \* client-connected events emitted so far
    handled,     \* per event: what the first handler did            (line 62)
    tpc,         \* per event: where the definitions handler is      (line 66)
    dpc,         \* per event: where the distribute handler is       (line 72)
    dp,          \* per event: extensions whose hook that handler is awaiting
    nDist        \* per event and path: calls of remoteAPI.distribute (line 78)

timeVars == <<bb, now, startTime, startOf, endTime, dur>>

buildVars == <<connected, queued, nBuilds, phase, errors, outExists, outFiles,
               remote, pc, files, pst, rst, hooked, nRes, waiters, lateCalls,
               faults, latest, latestOut, observe, timeVars>>

mirrorVars == <<mirrorOn, dirExists, nRuns, mpc, midx, sMade, sInit, sSync,
                sWatch, sDisposed, closed>>

resolverVars == <<rOutdir, rSep, rServer, rRest, rDone, rOut>>

setupVars == <<cfgPort, cfgWrite, cfgOutdir, cfgTypes, cfgDistribute, spc, hp,
               listening, handlers, nEv, handled, tpc, dpc, dp, nDist>>

vars == <<buildVars, mirrorVars, resolverVars, setupVars>>

\* ------------------------------------------------------------- onEnd, pure
\* A call of onEnd that has been accepted and has not returned or thrown.
InFlight(p) == p \in {"waiting", "readdir", "push", "ram", "hooks"}

\* Faulty variants of Accepts: the error guard left out; the queued guard left out.
Accepts_NoErrorGuard(errs, q) == ~q
Accepts_NoQueuedGuard(errs, q) == errs = 0

\* onEnd goes on past its two guards.
Accepts(errs, q) == errs = 0 /\ ~q

\* onEnd has to wait for a client.
NeedsClient(conn) == ~conn

\* Faulty variant of ResumeOnConnect: the listener runs the rest of onEnd itself, on
\* every client-connected.
ResumeOnConnect_EveryEvent(p) == "readdir"

\* The client-connected listener onEnd registered calls resolve(): the first
\* call resumes onEnd at readdir, a later call does nothing.
ResumeOnConnect(p) == IF p = "waiting" THEN "readdir" ELSE p

\* Faulty variant of PushStageDone: the first fulfilled push ends the wait.
PushStageDone_FirstWins(ps, fs) == \E f \in fs : ps[f] = "ok"

\* await Promise.all(promises): fulfilled when every push is, rejected as soon
\* as one is.
PushStageDone(ps, fs) == \A f \in fs : ps[f] = "ok"
PushStageFailed(ps, fs) == \E f \in fs : ps[f] = "fail"

\* await Promise.all(files.map(... calculateRAM ...)).
RamStageDone(rs, fs) == \A f \in fs : rs[f] = "ok"

\* extensions.map(e => (e.afterBuild ?? noop)(remoteAPI)): the hooks are called
\* in order; one that throws (not: rejects) ends the map.
HookKinds == {"ok", "reject", "throw"}
HooksInvoked(kinds) == {e \in Ext : \A d \in Ext : d < e => kinds[d] # "throw"}
HooksThrow(kinds) == \E e \in Ext : kinds[e] = "throw"

NoFiles == [f \in Files |-> "-"]

\* --------------------------------------------------------------------- Init
InitBuild ==
    /\ connected = FALSE
    /\ queued = FALSE
    /\ nBuilds = 0
    /\ phase = "idle"
    /\ errors = 0
    /\ outExists \in BOOLEAN
    /\ outFiles = [f \in Files |-> 0]
    /\ remote = [f \in Files |-> 0]
    /\ pc = [b \in Builds |-> "none"]
    /\ files = [b \in Builds |-> {}]
    /\ pst = [b \in Builds |-> NoFiles]
    /\ rst = [b \in Builds |-> NoFiles]
    /\ hooked = [b \in Builds |-> {}]
    /\ nRes = [b \in Builds |-> 0]
    /\ waiters = {}
    /\ lateCalls = {}
    /\ faults = FALSE
    /\ latest = 0
    /\ latestOut = {}
    /\ bb = [b \in Builds |-> {}]
    /\ now = 0
    /\ startTime = 0
    /\ startOf = [b \in Builds |-> 0]
    /\ endTime = [b \in Builds |-> 0]
    /\ dur = [b \in Builds |-> 0]

\* No client has connected yet: the mirror handler has not run.
MirrorIdle ==
    /\ nRuns = 0
    /\ mpc = [r \in Runs |-> "none"]
    /\ midx = [r \in Runs |-> 0]
    /\ sMade = [r \in Runs |-> [d \in Dirs |-> FALSE]]
    /\ sInit = [r \in Runs |-> [d \in Dirs |-> "-"]]
    /\ sSync = [r \in Runs |-> [d \in Dirs |-> "-"]]
    /\ sWatch = [r \in Runs |-> [d \in Dirs |-> FALSE]]
    /\ sDisposed = [r \in Runs |-> [d \in Dirs |-> 0]]
    /\ closed = FALSE

\* opts.mirror is not set.
NoMirror == mirrorOn = FALSE /\ dirExists = [d \in Dirs |-> FALSE] /\ MirrorIdle

HandlerNames == {"client-connected", "start", "end"}

\* No client has connected yet: no handler has run.
NoEvents ==
    /\ nEv = 0
    /\ handled = [ev \in Events |-> "-"]
    /\ tpc = [ev \in Events |-> "none"]
    /\ dpc = [ev \in Events |-> "none"]
    /\ dp = [ev \in Events |-> {}]
    /\ nDist = [ev \in Events |-> [p \in Paths |-> 0]]

\* setup has returned: the server listens and the handlers are registered
\* (opts.types and opts.distribute are not set).
SetupDone ==
    /\ cfgPort = TRUE /\ cfgWrite = FALSE /\ cfgOutdir = TRUE
    /\ cfgTypes = FALSE /\ cfgDistribute = FALSE
    /\ spc = "registered" /\ hp = {}
    /\ listening = TRUE /\ handlers = HandlerNames
    /\ NoEvents

NoDescriptor == [server |-> <<>>, filename |-> <<>>, path |-> <<>>]

\* No file is being resolved.
NoResolver ==
    /\ rOutdir = <<>> /\ rSep = "/" /\ rServer = "" /\ rRest = <<>>
    /\ rDone = FALSE /\ rOut = NoDescriptor

Init == InitBuild /\ observe = FALSE /\ NoMirror /\ NoResolver /\ SetupDone

\* The same program, with the client's files followed.
InitRemote == InitBuild /\ observe = TRUE /\ NoMirror /\ NoResolver /\ SetupDone

\* ------------------------------------------------------------ the bundler
\* Date.now(): the clock does not run backwards (followed under observe).
Clock == IF observe THEN {now, now + 1} ELSE {now}

\* Promise.allSettled(extensions.map(e => (e.beforeBuild ?? noop)())), not
\* awaited: every hook has been called and its promise is pending (hooks that
\* throw synchronously are not followed here).
Dispatched == IF observe THEN Ext ELSE {}

\* pluginBuild.onStart: startTime, then rm of outdir when it exists, else the
\* beforeBuild hooks are called and onStart returns.
OnStart ==
    /\ phase = "idle"
    /\ nBuilds < MaxBuilds
    /\ nBuilds' = nBuilds + 1
    /\ \E t \in Clock :
        /\ now' = t
        /\ startTime' = t
        /\ startOf' = [startOf EXCEPT ![nBuilds + 1] = t]
    /\ IF outExists
         THEN phase' = "rm" /\ UNCHANGED bb
         ELSE phase' = "building" /\ bb' = [bb EXCEPT ![nBuilds + 1] = Dispatched]
    /\ UNCHANGED <<mirrorVars, resolverVars, setupVars, observe, endTime, dur, connected, queued, errors, outExists, outFiles, remote, pc,
                   files, pst, rst, hooked, nRes, waiters, lateCalls, faults,
                   latest, latestOut>>

\* await fs.rm(outdir, { recursive: true }) has finished: the beforeBuild
\* hooks are called and onStart returns.
OnStartRmDone ==
    /\ phase = "rm"
    /\ outExists' = FALSE
    /\ outFiles' = [f \in Files |-> 0]
    /\ phase' = "building"
    /\ bb' = [bb EXCEPT ![nBuilds] = Dispatched]
    /\ UNCHANGED <<mirrorVars, resolverVars, setupVars, observe, now, startTime, startOf, endTime, dur, connected, queued, nBuilds, errors, remote, pc, files, pst,
                   rst, hooked, nRes, waiters, lateCalls, faults, latest,
                   latestOut>>

\* The promise of one beforeBuild hook settles.
BeforeBuildSettled(b, e) ==
    /\ e \in bb[b]
    /\ bb' = [bb EXCEPT ![b] = @ \ {e}]
    /\ UNCHANGED <<mirrorVars, resolverVars, setupVars, observe, now, startTime, startOf, endTime, dur, connected, queued, nBuilds, phase, errors, outExists,
                   outFiles, remote, pc, files, pst, rst, hooked, nRes, waiters,
                   lateCalls, faults, latest, latestOut>>

\* The bundler compiles: with errors it writes nothing, without it writes its
\* output under outdir (all the files, or none into an empty outdir).
Compile ==
    /\ phase = "building"
    /\ \E errs \in 0..MaxErrors, out \in {Files, {}} :
        /\ errors' = errs
        /\ IF errs = 0
             THEN /\ outExists' = TRUE
                  /\ outFiles' = [f \in Files |-> IF f \in out THEN nBuilds ELSE 0]
                  /\ latest' = IF observe THEN nBuilds ELSE latest
                  /\ latestOut' = IF observe THEN out ELSE latestOut
             ELSE UNCHANGED <<outExists, outFiles, latest, latestOut>>
    /\ phase' = "built"
    /\ UNCHANGED <<mirrorVars, resolverVars, setupVars, observe, timeVars, connected, queued, nBuilds, remote, pc, files, pst, rst,
                   hooked, nRes, waiters, lateCalls, faults>>

\* pluginBuild.onEnd up to its first await.
OnEnd ==
    /\ phase = "built"
    /\ phase' = "idle"
    /\ errors' = 0
    /\ LET b == nBuilds IN
       IF ~Accepts(errors, queued)
         THEN /\ pc' = [pc EXCEPT ![b] = IF errors # 0 THEN "errored" ELSE "dropped"]
              /\ UNCHANGED <<queued, waiters, nRes, now, endTime>>
         ELSE /\ \E t \in Clock : now' = t /\ endTime' = [endTime EXCEPT ![b] = t]
              /\ IF NeedsClient(connected)
                   THEN /\ queued' = TRUE
                        /\ waiters' = waiters \union {b}
                        /\ pc' = [pc EXCEPT ![b] = "waiting"]
                        /\ UNCHANGED nRes
                   ELSE /\ pc' = [pc EXCEPT ![b] = "readdir"]
                        /\ nRes' = [nRes EXCEPT ![b] = @ + 1]
                        /\ UNCHANGED <<queued, waiters>>
    /\ UNCHANGED <<mirrorVars, resolverVars, setupVars, observe, bb, startTime, startOf, dur, connected, nBuilds, outExists, outFiles, remote, files,
                   pst, rst, hooked, lateCalls, faults, latest, latestOut>>

\* ------------------------------------------------------------- the client
\* The server accepts a client (one at a time): the connection is up when
\* client-connected is emitted.
ClientArrives == ~connected /\ connected' = TRUE

\* The connection is lost.
ClientLeaves == connected /\ connected' = FALSE

\* A client connects and client-connected is emitted: every listener an onEnd
\* registered runs (opts.mirror, opts.distribute and opts.types are not set).
ClientConnected ==
    /\ ClientArrives
    /\ pc' = [b \in Builds |-> IF b \in waiters THEN ResumeOnConnect(pc[b]) ELSE pc[b]]
    /\ nRes' = [b \in Builds |-> IF pc'[b] = "readdir" /\ pc[b] # "readdir"
                                   THEN nRes[b] + 1 ELSE nRes[b]]
    /\ lateCalls' = lateCalls \union {b \in waiters : pc[b] # "waiting"}
    /\ UNCHANGED <<mirrorVars, resolverVars, setupVars, observe, timeVars, queued, nBuilds, phase, errors, outExists, outFiles, remote,
                   files, pst, rst, hooked, waiters, faults, latest, latestOut>>

ClientDisconnected ==
    /\ ClientLeaves
    /\ UNCHANGED <<mirrorVars, resolverVars, setupVars, observe, timeVars, queued, nBuilds, phase, errors, outExists, outFiles, remote,
                   pc, files, pst, rst, hooked, nRes, waiters, lateCalls, faults,
                   latest, latestOut>>

\* ------------------------------------------------------ the push sequence
\* The promises of an onEnd call that has thrown are dropped from the state,
\* all but the readFile calls still pending: those go on to call pushFile.
Abandoned(ps) == [f \in Files |-> IF ps[f] = "reading" THEN "reading" ELSE "-"]

\* What onEnd does once a push of build b has settled (ps: its pushes now):
\* nothing while pushes are pending, throw at the first rejection, go on to
\* calculateRAM for every file when all are fulfilled.
AfterPushSettle(b, ps) ==
    IF pc[b] # "push"
      THEN /\ pst' = [pst EXCEPT ![b] = Abandoned(ps)]
           /\ UNCHANGED <<pc, rst>>
    ELSE IF PushStageFailed(ps, files[b])
      THEN /\ pc' = [pc EXCEPT ![b] = "pushFailed"]
           /\ pst' = [pst EXCEPT ![b] = Abandoned(ps)]
           /\ UNCHANGED rst
    ELSE IF PushStageDone(ps, files[b])
      THEN /\ pc' = [pc EXCEPT ![b] = "ram"]
           /\ pst' = [pst EXCEPT ![b] = ps]
           /\ rst' = [rst EXCEPT ![b] =
                        [f \in Files |-> IF f \in files[b] THEN "pending" ELSE "-"]]
    ELSE /\ pst' = [pst EXCEPT ![b] = ps]
         /\ UNCHANGED <<pc, rst>>

\* await fs.readdir(outdir, ...) has settled: ENOENT when outdir is absent,
\* else the regular files under it; no file ends onEnd, otherwise the push of
\* every file starts with its readFile.
ReaddirDone(b) ==
    /\ pc[b] = "readdir"
    /\ IF ~outExists
         THEN /\ pc' = [pc EXCEPT ![b] = "enoent"]
              /\ UNCHANGED <<files, pst>>
         ELSE LET fs == {f \in Files : outFiles[f] # 0} IN
              /\ files' = [files EXCEPT ![b] = fs]
              /\ pst' = [pst EXCEPT ![b] =
                           [f \in Files |-> IF f \in fs THEN "reading" ELSE "-"]]
              /\ pc' = [pc EXCEPT ![b] = IF fs = {} THEN "empty" ELSE "push"]
    /\ UNCHANGED <<mirrorVars, resolverVars, setupVars, observe, timeVars, connected, queued, nBuilds, phase, errors, outExists,
                   outFiles, remote, rst, hooked, nRes, waiters, lateCalls,
                   faults, latest, latestOut>>

\* await fs.readFile(path) of one file has settled and, when it gave the
\* content, remoteAPI.pushFile is called with it: the file goes out on the
\* connection, or the call is rejected at once without one.
ReadFileDone(b, f) ==
    /\ pst[b][f] = "reading"
    /\ \E ioError \in BOOLEAN :
        LET failed == ioError \/ outFiles[f] = 0 \/ ~connected
            ps == [pst[b] EXCEPT ![f] = IF failed THEN "fail" ELSE "pushing"]
        IN  /\ remote' = IF failed \/ ~observe THEN remote
                         ELSE [remote EXCEPT ![f] = outFiles[f]]
            /\ faults' = (faults \/ (observe /\ (ioError \/ ~connected)))
            /\ AfterPushSettle(b, ps)
    /\ UNCHANGED <<mirrorVars, resolverVars, setupVars, observe, timeVars, connected, queued, nBuilds, phase, errors, outExists,
                   outFiles, files, hooked, nRes, waiters, lateCalls, latest,
                   latestOut>>

\* The client acknowledges a pushFile.
PushAck(b, f) ==
    /\ connected
    /\ pc[b] = "push"
    /\ pst[b][f] = "pushing"
    /\ AfterPushSettle(b, [pst[b] EXCEPT ![f] = "ok"])
    /\ UNCHANGED <<mirrorVars, resolverVars, setupVars, observe, timeVars, connected, queued, nBuilds, phase, errors, outExists,
                   outFiles, remote, files, hooked, nRes, waiters, lateCalls,
                   faults, latest, latestOut>>

\* A pushFile is rejected (an error answer, a timeout).
PushFail(b, f) ==
    /\ pc[b] = "push"
    /\ pst[b][f] = "pushing"
    /\ AfterPushSettle(b, [pst[b] EXCEPT ![f] = "fail"])
    /\ faults' = observe
    /\ UNCHANGED <<mirrorVars, resolverVars, setupVars, observe, timeVars, connected, queued, nBuilds, phase, errors, outExists,
                   outFiles, remote, files, hooked, nRes, waiters, lateCalls,
                   latest, latestOut>>

\* The client answers a calculateRAM; with the last answer onEnd clears
\* queued and calls the afterBuild hooks.
RamAck(b, f) ==
    /\ connected
    /\ pc[b] = "ram"
    /\ rst[b][f] = "pending"
    /\ LET rs == [rst[b] EXCEPT ![f] = "ok"] IN
        /\ rst' = [rst EXCEPT ![b] = rs]
        /\ IF pc[b] = "ram" /\ RamStageDone(rs, files[b])
             THEN /\ queued' = FALSE
                  /\ dur' = [dur EXCEPT ![b] = endTime[b] - startTime]
                  /\ \E kinds \in [Ext -> HookKinds] :
                      /\ hooked' = [hooked EXCEPT ![b] = HooksInvoked(kinds)]
                      /\ pc' = [pc EXCEPT ![b] =
                                  IF HooksThrow(kinds) THEN "hookThrew" ELSE "hooks"]
             ELSE UNCHANGED <<queued, hooked, pc, dur>>
    /\ UNCHANGED <<mirrorVars, resolverVars, setupVars, observe, bb, now, startTime, startOf, endTime, connected, nBuilds, phase, errors, outExists, outFiles,
                   remote, files, pst, nRes, waiters, lateCalls, faults, latest,
                   latestOut>>

\* A calculateRAM is rejected: Promise.all rejects and onEnd throws.
RamFail(b, f) ==
    /\ pc[b] = "ram"
    /\ rst[b][f] = "pending"
    /\ rst' = [rst EXCEPT ![b] = NoFiles]
    /\ pst' = [pst EXCEPT ![b] = NoFiles]
    /\ pc' = [pc EXCEPT ![b] = "ramFailed"]
    /\ faults' = observe
    /\ UNCHANGED <<mirrorVars, resolverVars, setupVars, observe, timeVars, connected, queued, nBuilds, phase, errors, outExists,
                   outFiles, remote, files, hooked, nRes, waiters, lateCalls,
                   latest, latestOut>>

\* await Promise.allSettled(... afterBuild ...) has settled; onEnd returns.
HooksSettled(b) ==
    /\ pc[b] = "hooks"
    /\ pc' = [pc EXCEPT ![b] = "done"]
    /\ UNCHANGED <<mirrorVars, resolverVars, setupVars, observe, timeVars, connected, queued, nBuilds, phase, errors, outExists,
                   outFiles, remote, files, pst, rst, hooked, nRes, waiters,
                   lateCalls, faults, latest, latestOut>>

NextBuild ==
    \/ OnStart
    \/ OnStartRmDone
    \/ Compile
    \/ OnEnd
    \/ ClientConnected
    \/ ClientDisconnected
    \/ \E b \in Builds : ReaddirDone(b)
    \/ \E b \in Builds, f \in Files : ReadFileDone(b, f)
    \/ \E b \in Builds, f \in Files : PushAck(b, f)
    \/ \E b \in Builds, f \in Files : PushFail(b, f)
    \/ \E b \in Builds, f \in Files : RamAck(b, f)
    \/ \E b \in Builds, f \in Files : RamFail(b, f)
    \/ \E b \in Builds : HooksSettled(b)

Next == NextBuild

Spec == Init /\ [][Next]_vars

\* The same program, with the beforeBuild hooks followed as well.
NextRemote ==
    \/ NextBuild
    \/ \E b \in Builds, e \in Ext : BeforeBuildSettled(b, e)

SpecRemote == InitRemote /\ [][NextRemote]_vars

\* ------------------------------------------------------ the mirror handler
\* Faulty variant of LastMirror: the loop over mirrors stops one short.
LastMirror_OneShort(i) == i >= NumDirs - 1

\* for (const mirror of mirrors): i is the last one.
LastMirror(i) == i = NumDirs

\* Faulty variant of RejectEnds: the rejection is caught and the loop goes on.
RejectEnds_Caught == FALSE

\* A rejected await inside the handler's loops is not caught: it ends the
\* handler.
RejectEnds == TRUE

\* for (const path in opts.mirror): the first directory from i on for which
\* existsSync(path) is false, NumDirs + 1 when there is none.
FirstMissing(i, ex) ==
    IF \E j \in i..NumDirs : ~ex[j]
      THEN CHOOSE j \in i..NumDirs : ~ex[j] /\ \A k \in i..(j - 1) : ex[k]
      ELSE NumDirs + 1

\* The first loop of call r from directory i on, up to its next await: a
\* session is made (and its close listener registered) for every directory
\* that exists; a missing one suspends the loop in fs.mkdir; after the last
\* the second loop starts with the first mirror's initFileCache().
ConstructFrom(r, i, ex) ==
    LET k == FirstMissing(i, ex) IN
    /\ sMade' = [sMade EXCEPT ![r] = [d \in Dirs |-> @[d] \/ (i <= d /\ d < k)]]
    /\ IF k <= NumDirs
         THEN /\ mpc' = [mpc EXCEPT ![r] = "mkdir"]
              /\ midx' = [midx EXCEPT ![r] = k]
              /\ UNCHANGED sInit
         ELSE /\ mpc' = [mpc EXCEPT ![r] = "init"]
              /\ midx' = [midx EXCEPT ![r] = 1]
              /\ sInit' = [sInit EXCEPT ![r][1] = "started"]

\* A client connects and client-connected is emitted: the mirror handler
\* starts, and returns at once when opts.mirror is not set.
MirrorClientConnected ==
    /\ ClientArrives /\ ~closed
    /\ nRuns < MaxRuns
    /\ nRuns' = nRuns + 1
    /\ IF ~mirrorOn
         THEN /\ mpc' = [mpc EXCEPT ![nRuns + 1] = "off"]
              /\ UNCHANGED <<midx, sMade, sInit>>
         ELSE ConstructFrom(nRuns + 1, 1, dirExists)
    /\ UNCHANGED <<mirrorOn, dirExists, sSync, sWatch, sDisposed, closed,
                   resolverVars, setupVars, observe, timeVars, queued, nBuilds, phase, errors,
                   outExists, outFiles, remote, pc, files, pst, rst, hooked,
                   nRes, waiters, lateCalls, faults, latest, latestOut>>

\* The client leaves.
MirrorClientDisconnected ==
    /\ ClientLeaves
    /\ UNCHANGED <<mirrorVars, resolverVars, setupVars, observe, timeVars, queued, nBuilds, phase,
                   errors, outExists, outFiles, remote, pc, files, pst, rst,
                   hooked, nRes, waiters, lateCalls, faults, latest, latestOut>>

\* await fs.mkdir(path, { recursive: true }) has finished: the session of
\* that directory is made and the first loop goes on.
MkdirDone(r) ==
    /\ mpc[r] = "mkdir"
    /\ LET ex == [dirExists EXCEPT ![midx[r]] = TRUE] IN
        /\ dirExists' = ex
        /\ ConstructFrom(r, midx[r], ex)
    /\ UNCHANGED <<mirrorOn, nRuns, sSync, sWatch, sDisposed, closed,
                   resolverVars, setupVars, buildVars>>

\* await mirror.initFileCache() has resolved: the next mirror's starts, or
\* after the last the third loop starts with the first syncWithRemote().
InitResolved(r) ==
    /\ mpc[r] = "init"
    /\ LET i == midx[r] IN
       IF LastMirror(i)
         THEN /\ sInit' = [sInit EXCEPT ![r][i] = "ok"]
              /\ sSync' = [sSync EXCEPT ![r][1] = "started"]
              /\ mpc' = [mpc EXCEPT ![r] = "sync"]
              /\ midx' = [midx EXCEPT ![r] = 1]
         ELSE /\ sInit' = [sInit EXCEPT ![r][i] = "ok", ![r][i + 1] = "started"]
              /\ midx' = [midx EXCEPT ![r] = i + 1]
              /\ UNCHANGED <<sSync, mpc>>
    /\ UNCHANGED <<mirrorOn, dirExists, nRuns, sMade, sWatch, sDisposed, closed,
                   resolverVars, setupVars, buildVars>>

\* await mirror.initFileCache() has rejected: the handler throws.
InitRejected(r) ==
    /\ mpc[r] = "init"
    /\ LET i == midx[r] IN
       IF RejectEnds
         THEN /\ sInit' = [sInit EXCEPT ![r][i] = "fail"]
              /\ mpc' = [mpc EXCEPT ![r] = "failed"]
              /\ UNCHANGED <<midx, sSync>>
         ELSE IF LastMirror(i)
           THEN /\ sInit' = [sInit EXCEPT ![r][i] = "fail"]
                /\ sSync' = [sSync EXCEPT ![r][1] = "started"]
                /\ mpc' = [mpc EXCEPT ![r] = "sync"]
                /\ midx' = [midx EXCEPT ![r] = 1]
           ELSE /\ sInit' = [sInit EXCEPT ![r][i] = "fail", ![r][i + 1] = "started"]
                /\ midx' = [midx EXCEPT ![r] = i + 1]
                /\ UNCHANGED <<sSync, mpc>>
    /\ UNCHANGED <<mirrorOn, dirExists, nRuns, sMade, sWatch, sDisposed, closed,
                   resolverVars, setupVars, buildVars>>

\* await mirror.syncWithRemote() has resolved: the next mirror's starts, or
\* after the last watch() is called on every mirror and the handler returns.
SyncResolved(r) ==
    /\ mpc[r] = "sync"
    /\ LET i == midx[r] IN
       IF LastMirror(i)
         THEN /\ sSync' = [sSync EXCEPT ![r][i] = "ok"]
              /\ sWatch' = [sWatch EXCEPT ![r] = [d \in Dirs |-> TRUE]]
              /\ mpc' = [mpc EXCEPT ![r] = "watching"]
              /\ UNCHANGED midx
         ELSE /\ sSync' = [sSync EXCEPT ![r][i] = "ok", ![r][i + 1] = "started"]
              /\ midx' = [midx EXCEPT ![r] = i + 1]
              /\ UNCHANGED <<sWatch, mpc>>
    /\ UNCHANGED <<mirrorOn, dirExists, nRuns, sMade, sInit, sDisposed, closed,
                   resolverVars, setupVars, buildVars>>

\* await mirror.syncWithRemote() has rejected: the handler throws.
SyncRejected(r) ==
    /\ mpc[r] = "sync"
    /\ LET i == midx[r] IN
       IF RejectEnds
         THEN /\ sSync' = [sSync EXCEPT ![r][i] = "fail"]
              /\ mpc' = [mpc EXCEPT ![r] = "failed"]
              /\ UNCHANGED <<midx, sWatch>>
         ELSE IF LastMirror(i)
           THEN /\ sSync' = [sSync EXCEPT ![r][i] = "fail"]
                /\ sWatch' = [sWatch EXCEPT ![r] = [d \in Dirs |-> TRUE]]
                /\ mpc' = [mpc EXCEPT ![r] = "watching"]
                /\ UNCHANGED midx
           ELSE /\ sSync' = [sSync EXCEPT ![r][i] = "fail", ![r][i + 1] = "started"]
                /\ midx' = [midx EXCEPT ![r] = i + 1]
                /\ UNCHANGED <<sWatch, mpc>>
    /\ UNCHANGED <<mirrorOn, dirExists, nRuns, sMade, sInit, sDisposed, closed,
                   resolverVars, setupVars, buildVars>>

\* The server's close event fires (remoteAPI.shutDown()): every listener
\* registered so far calls dispose() on its session.
Close ==
    /\ ~closed
    /\ closed' = TRUE
    /\ sDisposed' = [r \in Runs |-> [d \in Dirs |->
                        IF sMade[r][d] THEN sDisposed[r][d] + 1 ELSE sDisposed[r][d]]]
    /\ UNCHANGED <<mirrorOn, dirExists, nRuns, mpc, midx, sMade, sInit, sSync,
                   sWatch, resolverVars, setupVars, buildVars>>

InitMirror ==
    /\ InitBuild /\ observe = FALSE /\ NoResolver /\ SetupDone
    /\ mirrorOn \in BOOLEAN
    /\ dirExists \in [Dirs -> BOOLEAN]
    /\ MirrorIdle

NextMirror ==
    \/ MirrorClientConnected
    \/ MirrorClientDisconnected
    \/ \E r \in Runs : MkdirDone(r)
    \/ \E r \in Runs : InitResolved(r)
    \/ \E r \in Runs : InitRejected(r)
    \/ \E r \in Runs : SyncResolved(r)
    \/ \E r \in Runs : SyncRejected(r)
    \/ Close

SpecMirror == InitMirror /\ [][NextMirror]_vars

\* ------------------------------------------- the output file resolution
\* A path is the sequence of its segments and separators.
Slash == "/"
Backslash == "\\"
OutdirNames == {"build", "out"}
ServerNames == {"serverA", "serverB"}
RestNames == {"sub", "x.js"}

SeqsUpTo(S, n) == UNION {[1..k -> S] : k \in 1..n}

RECURSIVE Join(_, _)
\* The segments joined by the separator.
Join(segs, sep) ==
    IF Len(segs) = 0 THEN <<>>
    ELSE IF Len(segs) = 1 THEN segs
    ELSE <<Head(segs), sep>> \o Join(Tail(segs), sep)

Front(q) == SubSeq(q, 1, Len(q) - 1)
Last(q) == q[Len(q)]

\* file.path and file.name of the Dirent readdir gives for the file
\* <outdir>/<server>/<rest...>: the directory holding it, in the host's
\* separators, and its name.
DirentPath(outdir, sep, server, rest) == Join(outdir \o <<server>> \o Front(rest), sep)
DirentName(rest) == Last(rest)

\* .replaceAll('\\', '/')
ReplaceAllBackslash(q) == [i \in 1..Len(q) |-> IF q[i] = Backslash THEN Slash ELSE q[i]]

\* .replace(/^.*?\//, ''): the shortest prefix that ends in a slash is cut.
StripFirst(q) ==
    IF \E i \in 1..Len(q) : q[i] = Slash
      THEN LET i == CHOOSE j \in 1..Len(q) :
                       q[j] = Slash /\ \A k \in 1..(j - 1) : q[k] # Slash
           IN  SubSeq(q, i + 1, Len(q))
      ELSE q

\* .split('/')[0]: what stands before the first slash.
SplitFirst(q) ==
    IF \E i \in 1..Len(q) : q[i] = Slash
      THEN LET i == CHOOSE j \in 1..Len(q) :
                       q[j] = Slash /\ \A k \in 1..(j - 1) : q[k] # Slash
           IN  SubSeq(q, 1, i - 1)
      ELSE q

\* The two .map calls of onEnd on one Dirent.
Descriptor(outdir, sep, server, rest) ==
    LET rebased == StripFirst(ReplaceAllBackslash(DirentPath(outdir, sep, server, rest)))
        name == DirentName(rest)
    IN  [server |-> SplitFirst(rebased),
         filename |-> StripFirst(rebased \o <<Slash, name>>),
         path |-> Join(outdir, sep) \o <<Slash>> \o rebased \o <<Slash, name>>]

InitResolver ==
    /\ InitBuild /\ observe = FALSE /\ NoMirror /\ SetupDone
    /\ rOutdir \in SeqsUpTo(OutdirNames, MaxOutdirSegs)
    /\ rSep \in {Slash, Backslash}
    /\ rServer \in ServerNames
    /\ rRest \in SeqsUpTo(RestNames, MaxRestSegs)
    /\ rDone = FALSE
    /\ rOut = NoDescriptor

\* onEnd maps the Dirent of the file to its descriptor.
Resolve ==
    /\ ~rDone
    /\ rDone' = TRUE
    /\ rOut' = Descriptor(rOutdir, rSep, rServer, rRest)
    /\ UNCHANGED <<rOutdir, rSep, rServer, rRest, mirrorVars, buildVars, setupVars>>

NextResolver == Resolve

SpecResolver == InitResolver /\ [][NextResolver]_vars

\* ------------------------------------------- setup and its event handlers
\* A hook that is called either returns (a value or a promise, which settles
\* later whether it is fulfilled or rejected) or throws.
CallKinds == {"ok", "throw"}

\* Faulty variant of ConfigError: the check of the write mode left out.
ConfigError_NoWriteCheck(port, write, outdir) == ~port \/ ~outdir

\* The three checks of setup: one that fails throws.
ConfigError(port, write, outdir) == ~port \/ write \/ ~outdir

\* setup up to its first await: the setup hooks are called; one that throws
\* makes setup reject there.
SetupEnter ==
    /\ spc = "start"
    /\ \E kinds \in [Ext -> CallKinds] :
        IF HooksThrow(kinds)
          THEN spc' = "threw" /\ hp' = {}
          ELSE spc' = "setup" /\ hp' = HooksInvoked(kinds)
    /\ UNCHANGED <<cfgPort, cfgWrite, cfgOutdir, cfgTypes, cfgDistribute, listening,
                   handlers, nEv, handled, tpc, dpc, dp, nDist,
                   buildVars, mirrorVars, resolverVars>>

\* The promise of a setup hook settles; with the last one setup goes on: the
\* three checks, listen, the beforeConnect hooks.
SetupHookSettled(e) ==
    /\ spc = "setup"
    /\ e \in hp
    /\ IF hp # {e}
         THEN hp' = hp \ {e} /\ UNCHANGED <<spc, listening>>
         ELSE IF ConfigError(cfgPort, cfgWrite, cfgOutdir)
           THEN spc' = "failed" /\ hp' = {} /\ UNCHANGED listening
           ELSE /\ listening' = TRUE
                /\ \E kinds \in [Ext -> CallKinds] :
                    IF HooksThrow(kinds)
                      THEN spc' = "threw" /\ hp' = {}
                      ELSE spc' = "beforeConnect" /\ hp' = HooksInvoked(kinds)
    /\ UNCHANGED <<cfgPort, cfgWrite, cfgOutdir, cfgTypes, cfgDistribute,
                   handlers, nEv, handled, tpc, dpc, dp, nDist,
                   buildVars, mirrorVars, resolverVars>>

\* The promise of a beforeConnect hook settles; with the last one setup
\* registers its handlers and returns.
BeforeConnectSettled(e) ==
    /\ spc = "beforeConnect"
    /\ e \in hp
    /\ hp' = hp \ {e}
    /\ IF hp # {e}
         THEN UNCHANGED <<spc, handlers>>
         ELSE spc' = "registered" /\ handlers' = HandlerNames
    /\ UNCHANGED <<cfgPort, cfgWrite, cfgOutdir, cfgTypes, cfgDistribute, listening,
                   nEv, handled, tpc, dpc, dp, nDist,
                   buildVars, mirrorVars, resolverVars>>

\* A client connects to the listening server and client-connected is emitted:
\* the registered handlers run in the order they were registered, each up to
\* its first await. The first handler is not async: an afterConnect hook that
\* throws makes emit throw, and the handlers after it do not run.
SetupClientConnected ==
    /\ listening
    /\ ClientArrives
    /\ nEv < MaxEvents
    /\ nEv' = nEv + 1
    /\ LET ev == nEv + 1 IN
       IF "client-connected" \notin handlers
         THEN /\ handled' = [handled EXCEPT ![ev] = "lost"]
              /\ UNCHANGED <<tpc, dpc, dp>>
         ELSE \E ac \in [Ext -> CallKinds] :
           IF HooksThrow(ac)
             THEN /\ handled' = [handled EXCEPT ![ev] = "threw"]
                  /\ UNCHANGED <<tpc, dpc, dp>>
             ELSE /\ handled' = [handled EXCEPT ![ev] = "ran"]
                  /\ tpc' = [tpc EXCEPT ![ev] = IF cfgTypes THEN "getdef" ELSE "off"]
                  /\ IF ~cfgDistribute
                       THEN dpc' = [dpc EXCEPT ![ev] = "off"] /\ UNCHANGED dp
                       ELSE \E bd \in [Ext -> CallKinds] :
                              IF HooksThrow(bd)
                                THEN dpc' = [dpc EXCEPT ![ev] = "threw"] /\ UNCHANGED dp
                                ELSE /\ dpc' = [dpc EXCEPT ![ev] = "before"]
                                     /\ dp' = [dp EXCEPT ![ev] = HooksInvoked(bd)]
    /\ UNCHANGED <<cfgPort, cfgWrite, cfgOutdir, cfgTypes, cfgDistribute, spc, hp,
                   listening, handlers, nDist, mirrorVars, resolverVars,
                   observe, timeVars, queued, nBuilds, phase, errors,
                   outExists, outFiles, remote, pc, files, pst, rst, hooked,
                   nRes, waiters, lateCalls, faults, latest, latestOut>>

\* The client leaves.
SetupClientDisconnected ==
    /\ ClientLeaves
    /\ UNCHANGED <<setupVars, mirrorVars, resolverVars,
                   observe, timeVars, queued, nBuilds, phase, errors,
                   outExists, outFiles, remote, pc, files, pst, rst, hooked,
                   nRes, waiters, lateCalls, faults, latest, latestOut>>

\* await remoteAPI.getDefinitionFile() has settled.
TypesGot(ev) ==
    /\ tpc[ev] = "getdef"
    /\ \E ok \in BOOLEAN : tpc' = [tpc EXCEPT ![ev] = IF ok THEN "write" ELSE "failed"]
    /\ UNCHANGED <<cfgPort, cfgWrite, cfgOutdir, cfgTypes, cfgDistribute, spc, hp,
                   listening, handlers, nEv, handled, dpc, dp, nDist,
                   buildVars, mirrorVars, resolverVars>>

\* await fs.writeFile(opts.types, types.result) has settled.
TypesWritten(ev) ==
    /\ tpc[ev] = "write"
    /\ \E ok \in BOOLEAN : tpc' = [tpc EXCEPT ![ev] = IF ok THEN "done" ELSE "failed"]
    /\ UNCHANGED <<cfgPort, cfgWrite, cfgOutdir, cfgTypes, cfgDistribute, spc, hp,
                   listening, handlers, nEv, handled, dpc, dp, nDist,
                   buildVars, mirrorVars, resolverVars>>

\* The promise of a beforeDistribute hook settles; with the last one the
\* handler calls distribute for every path and then the afterDistribute hooks.
BeforeDistributeSettled(ev, e) ==
    /\ dpc[ev] = "before"
    /\ e \in dp[ev]
    /\ IF dp[ev] # {e}
         THEN dp' = [dp EXCEPT ![ev] = @ \ {e}] /\ UNCHANGED <<dpc, nDist>>
         ELSE /\ nDist' = [nDist EXCEPT ![ev] = [p \in Paths |-> @[p] + 1]]
              /\ \E ad \in [Ext -> CallKinds] :
                  IF HooksThrow(ad)
                    THEN /\ dpc' = [dpc EXCEPT ![ev] = "afterThrew"]
                         /\ dp' = [dp EXCEPT ![ev] = {}]
                    ELSE /\ dpc' = [dpc EXCEPT ![ev] = "after"]
                         /\ dp' = [dp EXCEPT ![ev] = HooksInvoked(ad)]
    /\ UNCHANGED <<cfgPort, cfgWrite, cfgOutdir, cfgTypes, cfgDistribute, spc, hp,
                   listening, handlers, nEv, handled, tpc,
                   buildVars, mirrorVars, resolverVars>>

\* The promise of an afterDistribute hook settles; with the last one the
\* handler returns.
AfterDistributeSettled(ev, e) ==
    /\ dpc[ev] = "after"
    /\ e \in dp[ev]
    /\ dp' = [dp EXCEPT ![ev] = @ \ {e}]
    /\ dpc' = [dpc EXCEPT ![ev] = IF dp[ev] = {e} THEN "done" ELSE "after"]
    /\ UNCHANGED <<cfgPort, cfgWrite, cfgOutdir, cfgTypes, cfgDistribute, spc, hp,
                   listening, handlers, nEv, handled, tpc, nDist,
                   buildVars, mirrorVars, resolverVars>>

\* The bundler calls setup with some configuration.
InitSetup ==
    /\ InitBuild /\ outExists = FALSE /\ observe = FALSE /\ NoMirror /\ NoResolver
    /\ cfgPort \in BOOLEAN /\ cfgWrite \in BOOLEAN /\ cfgOutdir \in BOOLEAN
    /\ cfgTypes \in BOOLEAN /\ cfgDistribute \in BOOLEAN
    /\ spc = "start" /\ hp = {}
    /\ listening = FALSE /\ handlers = {}
    /\ NoEvents

NextSetup ==
    \/ SetupEnter
    \/ \E e \in Ext : SetupHookSettled(e)
    \/ \E e \in Ext : BeforeConnectSettled(e)
    \/ SetupClientConnected
    \/ SetupClientDisconnected
    \/ \E ev \in Events : TypesGot(ev)
    \/ \E ev \in Events : TypesWritten(ev)
    \/ \E ev \in Events, e \in Ext : BeforeDistributeSettled(ev, e)
    \/ \E ev \in Events, e \in Ext : AfterDistributeSettled(ev, e)

SpecSetup == InitSetup /\ [][NextSetup]_vars

\* ------------------------------------------------------------ the claims
InFlightBuilds == {b \in Builds : InFlight(pc[b])}
Waiting == {b \in Builds : pc[b] = "waiting"}

\* C1: at most one push sequence (an accepted onEnd call that has not
\* finished) is in flight at any instant.
C1_SingleFlight == Cardinality(InFlightBuilds) <= 1

C3_GateReleasedAtEnd ==
    [][\A b \in Builds :
          (InFlight(pc[b]) /\ pc'[b] # pc[b]
             /\ pc'[b] \in {"hooks", "hookThrew", "empty", "pushFailed", "ramFailed"})
          => ~queued']_vars

\* Nothing is going on: no build under way, no onEnd call in flight, no
\* readFile pending, a client connected.
Quiescent ==
    /\ connected
    /\ phase = "idle"
    /\ InFlightBuilds = {}
    /\ \A b \in Builds, f \in Files : pst[b][f] # "reading"

\* C4: when nothing is going on any more and nothing failed on the way, the
\* client holds the output of the latest error-free build.
C4_RemoteHoldsLatest ==
    (Quiescent /\ ~faults /\ latest # 0) => \A f \in latestOut : remote[f] = latest

C6_ErrorsPushNothing ==
    [][(phase = "built" /\ phase' = "idle" /\ errors > 0)
         => /\ queued' = queued
            /\ pst' = pst /\ rst' = rst /\ nRes' = nRes /\ files' = files
            /\ waiters' = waiters /\ remote' = remote
            /\ pc' = [pc EXCEPT ![nBuilds] = "errored"]]_vars

\* C6 witness: a build with errors has ended with a client connected, the
\* gate busy and another build end in flight.
C6_Witness ==
    \E b \in Builds : pc[b] = "errored" /\ queued /\ connected /\ InFlightBuilds # {}

\* C8: once the afterBuild hooks of a cycle are dispatched, every extension's
\* hook has been called and the dispatch has thrown nothing.
C8_HookIsolation ==
    \A b \in Builds :
        pc[b] \in {"hooks", "hookThrew", "done"}
          => hooked[b] = Ext /\ pc[b] # "hookThrew"

\* C9: a calculateRAM of a cycle exists only when every pushFile of the cycle
\* is fulfilled (none after a failed push), and the afterBuild hooks are
\* dispatched only when every calculateRAM of the cycle is fulfilled.
C9_StageBarrier ==
    \A b \in Builds :
        /\ (\E f \in Files : rst[b][f] # "-")
              => \A f \in files[b] : pst[b][f] = "ok"
        /\ (pc[b] \in {"hooks", "hookThrew", "done"} \/ hooked[b] # {})
              => /\ files[b] # {}
                 /\ \A f \in files[b] : rst[b][f] = "ok"
        /\ pc[b] = "pushFailed" => rst[b] = NoFiles

\* C9 witness: the hooks of a cycle of two or more files are dispatched.
C9_Witness ==
    \E b \in Builds : pc[b] = "hooks" /\ Cardinality(files[b]) >= 2
\* C7: within one call of the mirror handler no syncWithRemote() is begun
\* until initFileCache() has resolved for every session, and no watch() until
\* syncWithRemote() has resolved for every session.
C7_MirrorPhases ==
    \A r \in Runs : \A d \in Dirs :
        /\ sSync[r][d] # "-" => \A e \in Dirs : sMade[r][e] /\ sInit[r][e] = "ok"
        /\ sWatch[r][d] => \A e \in Dirs : sSync[r][e] = "ok"
        /\ sInit[r][d] # "-" => \A e \in Dirs : sMade[r][e]

\* C7 witness: a call over two or more directories has every session watching.
C7_Witness ==
    NumDirs >= 2 /\ \E r \in Runs : \A d \in Dirs : sWatch[r][d] /\ sSync[r][d] = "ok"
\* C10: for every outdir and every file <outdir>/<server>/<rest...> the
\* descriptor has server = <server> and filename = <rest> joined by '/'.
C10_ServerAndFilename ==
    rDone => rOut.server = <<rServer>> /\ rOut.filename = Join(rRest, Slash)
\* C11: once close has fired, every mirror session that was made has had
\* dispose() called exactly once.
C11_DisposedOnce ==
    closed => \A r \in Runs : \A d \in Dirs : sMade[r][d] => sDisposed[r][d] = 1

\* C13: when initFileCache() or syncWithRemote() has failed for a session
\* of a call of the mirror handler, no session of that call has watch()
\* started.
C13_FailureAbortsRun ==
    \A r \in Runs :
        (\E d \in Dirs : sInit[r][d] = "fail" \/ sSync[r][d] = "fail")
          => \A d \in Dirs : ~sWatch[r][d]

\* C13 witness: a call in which one session's cache-init and sync succeeded
\* and a later session's sync failed.
C13_Witness ==
    \E r \in Runs : \E d, e \in Dirs :
        sSync[r][d] = "ok" /\ sSync[r][e] = "fail" /\ mpc[r] = "failed"

\* C17: at any time at most one session that is made and not disposed exists
\* per configured directory.
C17_OneLiveSessionPerDir ==
    \A d \in Dirs : Cardinality({r \in Runs : sMade[r][d] /\ sDisposed[r][d] = 0}) <= 1

\* C18: on a session that has been disposed no initFileCache(),
\* syncWithRemote() or watch() is started.
C18_NothingAfterDispose ==
    [][\A r \in Runs : \A d \in Dirs :
          sDisposed[r][d] > 0 =>
              /\ (sInit'[r][d] = "started" => sInit[r][d] = "started")
              /\ (sSync'[r][d] = "started" => sSync[r][d] = "started")
              /\ (sWatch'[r][d] => sWatch[r][d])]_vars
\* C14: a push sequence that resolves outdir when it is absent or empty gets
\* an empty list, not an error, and has no push and no calculateRAM issued.
C14_AbsentYieldsEmpty ==
    \A b \in Builds :
        /\ pc[b] # "enoent"
        /\ pc[b] = "empty" => pst[b] = NoFiles /\ rst[b] = NoFiles
\* C15: while the bundler compiles, and after, no beforeBuild hook of the
\* build is pending: onStart has removed outdir, called the hooks and waited
\* for every one of them to settle before it returned.
C15_StartAwaitsBeforeBuild ==
    /\ \A b \in Builds : bb[b] # {} /\ b = nBuilds /\ phase = "building" => ~outExists
    /\ nBuilds > 0 /\ phase \in {"building", "built"} => bb[nBuilds] = {}

\* C20: the duration a push sequence logs is its build's own end time minus
\* that build's start time, and is not negative.
C20_DurationOfSameBuild ==
    \A b \in Builds :
        pc[b] \in {"hooks", "hookThrew", "done"} =>
            dur[b] = endTime[b] - startOf[b] /\ dur[b] >= 0
\* C12: with the port unset, the write mode on or outdir unset, setup never
\* calls listen, never registers a handler and never returns normally.
C12_BadConfigAborts ==
    (~cfgPort \/ cfgWrite \/ ~cfgOutdir) =>
        ~listening /\ handlers = {} /\ spc \notin {"beforeConnect", "registered"}

\* C12 witness: setup has thrown at the check of the write mode, with the
\* port and outdir set.
C12_Witness ==
    spc = "failed" /\ cfgWrite /\ cfgPort /\ cfgOutdir /\ ~listening

\* C16: for every client-connected event the distribute handler was called
\* for, with opts.distribute set: no distribute() is issued while a
\* beforeDistribute hook is pending, the handler does not end without having
\* issued distribute() once for every path, and the afterDistribute hooks are
\* called only after that.
C16_DistributeWrapped ==
    \A ev \in Events :
        (cfgDistribute /\ handled[ev] = "ran") =>
            /\ dpc[ev] \in {"before", "after", "afterThrew", "done"}
            /\ dpc[ev] = "before" => \A p \in Paths : nDist[ev][p] = 0
            /\ dpc[ev] # "before" => \A p \in Paths : nDist[ev][p] = 1

\* C19: every client-connected event emitted after listen is handled: the
\* afterConnect hooks are called for it and the handlers after the first run.
C19_EveryEventHandled ==
    \A ev \in Events : ev <= nEv => handled[ev] = "ran"
====
